---- MODULE Spec2Model ----
(* Model of .github/scripts/update_upstream.py: the version helpers        *)
(* (parse_version, increment_patch_version, compare_versions), the two     *)
(* descriptor writers (update_package_json, update_docker_compose) and the *)
(* control flow of main() over the files of the build directory.           *)
(* Strings are sequences of one-character strings.                         *)
EXTENDS Integers, Sequences, FiniteSets, TLC

(***************************************************************************)
(* Python string and integer primitives used by the script                 *)
(***************************************************************************)
Digits == <<"0", "1", "2", "3", "4", "5", "6", "7", "8", "9">>

DigitSet == {Digits[k] : k \in 1..10}

DigitVal(c) == (CHOOSE k \in 1..10 : Digits[k] = c) - 1

\* str.lstrip(chars) for a single character: removes EVERY leading occurrence
RECURSIVE lstrip(_, _)
lstrip(s, c) == IF s # <<>> /\ Head(s) = c THEN lstrip(Tail(s), c) ELSE s

RECURSIVE rstrip(_, _)
rstrip(s, c) ==
    IF s # <<>> /\ s[Len(s)] = c THEN rstrip(SubSeq(s, 1, Len(s) - 1), c) ELSE s

\* str.split(sep): always at least one part, empty parts are kept
RECURSIVE split(_, _)
split(s, sep) ==
    IF \A k \in 1..Len(s) : s[k] # sep
    THEN <<s>>
    ELSE LET k == CHOOSE k \in 1..Len(s) :
                     s[k] = sep /\ \A j \in 1..(k - 1) : s[j] # sep
         IN  <<SubSeq(s, 1, k - 1)>> \o split(SubSeq(s, k + 1, Len(s)), sep)

RECURSIVE DigitsValue(_)
DigitsValue(ds) ==
    IF ds = <<>> THEN 0
    ELSE 10 * DigitsValue(SubSeq(ds, 1, Len(ds) - 1)) + DigitVal(ds[Len(ds)])

\* int(str): surrounding whitespace is stripped, one optional sign, then
\* digits with single underscores allowed between digits; anything else
\* raises ValueError (ok = FALSE).
int(s) ==
    LET t      == rstrip(lstrip(s, " "), " ")
        signed == t # <<>> /\ t[1] \in {"+", "-"}
        body   == IF signed THEN Tail(t) ELSE t
        valid  == /\ body # <<>>
                  /\ \A k \in 1..Len(body) : body[k] \in DigitSet \cup {"_"}
                  /\ body[1] # "_"
                  /\ body[Len(body)] # "_"
                  /\ \A k \in 1..(Len(body) - 1) :
                        ~(body[k] = "_" /\ body[k + 1] = "_")
        mag    == DigitsValue(SelectSeq(body, LAMBDA c : c # "_"))
    IN  [ok  |-> valid,
         val |-> IF ~valid THEN 0
                 ELSE IF signed /\ t[1] = "-" THEN 0 - mag ELSE mag]

\* str(n) as produced by an f-string for an integer
RECURSIVE NatStr(_)
NatStr(n) == IF n < 10 THEN <<Digits[n + 1]>>
             ELSE NatStr(n \div 10) \o <<Digits[(n % 10) + 1]>>

str(n) == IF n < 0 THEN <<"-">> \o NatStr(0 - n) ELSE NatStr(n)

(***************************************************************************)
(* Version helpers                                                         *)
(***************************************************************************)
\* parse_version: ok = FALSE stands for the ValueError it raises
parse_version(version_str) ==
    LET clean_version == lstrip(version_str, "v")
        parts == split(clean_version, ".")
        good  == Len(parts) = 3 /\ \A k \in 1..3 : int(parts[k]).ok
    IN  [ok |-> good,
         v  |-> IF good THEN <<int(parts[1]).val, int(parts[2]).val,
                               int(parts[3]).val>>
                ELSE <<0, 0, 0>>]

increment_patch_version(version_str) ==
    LET p == parse_version(version_str)
    IN  [ok |-> p.ok,
         s  |-> IF p.ok
                THEN str(p.v[1]) \o <<".">> \o str(p.v[2]) \o <<".">>
                        \o str(p.v[3] + 1)
                ELSE <<>>]

\* Python's ordering of two 3-tuples of integers
TupleLess(t1, t2) ==
    \E k \in 1..3 : (\A j \in 1..(k - 1) : t1[j] = t2[j]) /\ t1[k] < t2[k]

\* Ordering of two strings by character (what comparing the raw strings does)
CharCode(c) == IF c \in DigitSet THEN DigitVal(c) + 48
               ELSE IF c = "." THEN 46 ELSE IF c = "v" THEN 118 ELSE 32

StrLess(s1, s2) ==
    \/ \E k \in 1..Len(s1) :
          /\ k <= Len(s2)
          /\ \A j \in 1..(k - 1) : s1[j] = s2[j]
          /\ CharCode(s1[k]) < CharCode(s2[k])
    \/ Len(s1) < Len(s2) /\ \A j \in 1..Len(s1) : s1[j] = s2[j]

\* A plausible slip: the cleaned strings are compared, not the integer tuples.
compare_versions_lex(v1, v2) ==
    LET p1 == parse_version(v1)
        p2 == parse_version(v2)
        c1 == lstrip(v1, "v")
        c2 == lstrip(v2, "v")
    IN  [ok  |-> p1.ok /\ p2.ok,
         val |-> IF ~(p1.ok /\ p2.ok) THEN 0
                 ELSE IF StrLess(c1, c2) THEN 0 - 1
                 ELSE IF c1 = c2 THEN 0
                 ELSE 1]

compare_versions(v1, v2) ==
    LET p1 == parse_version(v1)
        p2 == parse_version(v2)
    IN  [ok  |-> p1.ok /\ p2.ok,
         val |-> IF ~(p1.ok /\ p2.ok) THEN 0
                 ELSE IF TupleLess(p1.v, p2.v) THEN 0 - 1
                 ELSE IF p1.v = p2.v THEN 0
                 ELSE 1]

(***************************************************************************)
(* The build directory and the run of main()                               *)
(***************************************************************************)
\* build/dappnode_package-<n>.json and build/docker-compose-<n>.yml, in the
\* order sorted(glob(...)) yields them
NetworkOrder == <<"holesky", "mainnet">>

Networks == {NetworkOrder[k] : k \in 1..Len(NetworkOrder)}

Primary == "mainnet"

\* Number of consecutive runs of the script that are explored
MaxRuns == 2

\* Strings that occur in the files and as fetched tags
S_1_0_9   == <<"1", ".", "0", ".", "9">>
S_3_1_4   == <<"3", ".", "1", ".", "4">>
S_10_0    == <<"1", "0", ".", "0">>
S_v1_9_0  == <<"v", "1", ".", "9", ".", "0">>
S_v1_10_0 == <<"v", "1", ".", "1", "0", ".", "0">>
S_1_9_1   == <<"1", ".", "9", ".", "1">>
S_1_9     == <<"1", ".", "9">>
S_v1_10   == <<"v", "1", ".", "1", "0">>

PkgVersions == {S_1_0_9, S_3_1_4, S_10_0}

StoredUpstreams == {S_v1_9_0, S_v1_10_0, S_1_9}

LatestTags == {S_v1_10_0, S_1_9_1, S_v1_10, <<>>}

NoPackage == [exists |-> FALSE, content |-> "none",
              version |-> <<>>, upstream |-> <<>>]

PackageFile(ver, up) == [exists |-> TRUE, content |-> "json",
                         version |-> ver, upstream |-> up]

NoLine == [present |-> FALSE, value |-> <<>>]

Line(val) == [present |-> TRUE, value |-> val]

NoCompose == [exists |-> FALSE, content |-> "none",
              image |-> NoLine, arg |-> NoLine]

\* image: the tag of the image line whose name has one of the two dappnode
\* suffixes; arg: the value that follows "VERSION:"
ComposeFile(img, arg) == [exists |-> TRUE, content |-> "text",
                          image |-> img, arg |-> arg]

\* Only the mainnet package's upstream is ever read back by the script
InitPackages(n) ==
    {NoPackage} \cup
    {PackageFile(v, u) : v \in PkgVersions,
                         u \in IF n = Primary THEN StoredUpstreams
                                ELSE {S_v1_9_0, S_v1_10_0}}

InitComposes == {NoCompose} \cup
                {ComposeFile(i, a) : i \in {NoLine, Line(S_1_0_9)},
                                     a \in {NoLine, Line(S_v1_9_0)}}

VARIABLES
    pkg,                  \* [Networks -> package descriptor file]
    compose,              \* [Networks -> deployment descriptor file]
    github_output,        \* 'GITHUB_OUTPUT' in os.environ
    output,               \* lines appended to $GITHUB_OUTPUT by the current run
    pc,                   \* position of main()
    exit_code,
    exit_reason,
    latest_geth_version,
    current_upstream,
    current_version,
    files,                \* package_files, then compose_files
    idx,                  \* position of the running for-loop in files
    pending,              \* content held in memory while the file is open for writing
    run0,                 \* the files as they were when the current run started
    written,              \* files the current run opened for writing
    tag_incs,             \* per network: patch increments made for the current tag
    runs,
    kills,                \* runs so far that were killed
    call                  \* a call of one version helper: arguments and result

vars == <<pkg, compose, github_output, output, pc, exit_code, exit_reason,
          latest_geth_version, current_upstream, current_version, files, idx,
          pending, run0, written, tag_incs, runs, kills, call>>

disk == <<pkg, compose>>

history == <<run0, written, tag_incs, runs, kills>>

NoCall == [fn |-> "none", args |-> <<>>, result |-> <<>>]

Init ==
    /\ pkg \in [Networks -> UNION {InitPackages(n) : n \in Networks}]
    /\ \A n \in Networks : pkg[n] \in InitPackages(n)
    /\ compose \in [Networks -> InitComposes]
    /\ github_output \in BOOLEAN
    /\ output = <<>>
    /\ pc = "idle"
    /\ exit_code = 0
    /\ exit_reason = "none"
    /\ latest_geth_version = <<>>
    /\ current_upstream = <<>>
    /\ current_version = <<>>
    /\ files = <<>>
    /\ idx = 0
    /\ pending = <<>>
    /\ run0 = [pkg |-> pkg, compose |-> compose]
    /\ written = {}
    /\ tag_incs = [n \in Networks |-> 0]
    /\ runs = 0
    /\ kills = 0
    /\ call = NoCall

\* sys.exit(code), or an uncaught exception ending the interpreter
Exit(code, reason) ==
    /\ pc' = "exit"
    /\ exit_code' = code
    /\ exit_reason' = reason
    /\ files' = <<>>
    /\ idx' = 0
    /\ pending' = <<>>

\* sorted(build_dir.glob(...)) over the files that exist
Glob(dir) == SelectSeq(NetworkOrder, LAMBDA n : dir[n].exists)

\* A plausible slip: update whenever the two versions differ.
needs_update_ne(current, latest) == compare_versions(current, latest).val # 0

\* A plausible slip: ">" for ">=", so that an equal version is updated too.
needs_update_on_equal(current, latest) ==
    ~(compare_versions(current, latest).val > 0)

\* line 208: the run goes on to update unless compare_versions(...) >= 0
needs_update(current, latest) == ~(compare_versions(current, latest).val >= 0)

\* lines 184-188: a new run starts and fetches the latest release tag
fetch_latest_geth_release ==
    /\ pc \in {"idle", "exit"}
    /\ runs < MaxRuns
    /\ runs' = runs + 1
    /\ run0' = [pkg |-> pkg, compose |-> compose]
    /\ written' = {}
    /\ output' = <<>>
    /\ UNCHANGED <<disk, github_output, current_upstream, current_version, kills,
                   call>>
    /\ \/ \* HTTPError or any other exception: sys.exit(1)
          /\ Exit(1, "fetch")
          /\ UNCHANGED <<latest_geth_version, tag_incs>>
       \/ \E tag \in LatestTags :
            /\ latest_geth_version' = tag
            /\ tag_incs' = IF tag = latest_geth_version THEN tag_incs
                           ELSE [n \in Networks |-> 0]
            /\ IF tag = <<>>
               THEN Exit(1, "fetch")
               ELSE /\ pc' = "decide"
                    /\ exit_code' = 0
                    /\ exit_reason' = "none"
                    /\ UNCHANGED <<files, idx, pending>>

\* lines 190-227: read the mainnet package, compare, list the package files
main_decide ==
    /\ pc = "decide"
    /\ UNCHANGED <<disk, github_output, latest_geth_version, history, call>>
    /\ IF ~pkg[Primary].exists
       THEN Exit(1, "missing") /\ UNCHANGED <<output, current_upstream, current_version>>
       ELSE IF pkg[Primary].content # "json"
       THEN Exit(1, "JSONDecodeError")
            /\ UNCHANGED <<output, current_upstream, current_version>>
       ELSE /\ current_upstream' = pkg[Primary].upstream
            /\ current_version' = pkg[Primary].version
            /\ IF ~compare_versions(pkg[Primary].upstream, latest_geth_version).ok
               THEN Exit(1, "ValueError") /\ UNCHANGED output
               ELSE IF ~needs_update(pkg[Primary].upstream, latest_geth_version)
               THEN /\ output' = IF github_output
                                 THEN <<"update_available=false">> ELSE <<>>
                    /\ Exit(0, "noop")
               ELSE IF Glob(pkg) = <<>>
               THEN Exit(1, "no_packages") /\ UNCHANGED output
               ELSE /\ pc' = "pkg_loop"
                    /\ files' = Glob(pkg)
                    /\ idx' = 1
                    /\ UNCHANGED <<output, exit_code, exit_reason, pending>>

\* lines 122-133: the record json.dump writes back
update_package_json(data, new_version, new_upstream) ==
    [data EXCEPT !.version = new_version, !.upstream = new_upstream]

\* re.sub(r"(VERSION:\s+)v[\d.]+", rf"\g<1>{new_version_arg}", content) on the
\* value after "VERSION:": the longest run of digits and dots after a 'v' is
\* replaced, whatever follows it is kept; no match leaves the value alone
RECURSIVE VersionRun(_, _)
VersionRun(value, k) ==
    IF k <= Len(value) /\ value[k] \in DigitSet \cup {"."}
    THEN VersionRun(value, k + 1) ELSE k - 1

VersionArgSub(line, new_version_arg) ==
    IF /\ line.present
       /\ Len(line.value) >= 2
       /\ line.value[1] = "v"
       /\ line.value[2] \in DigitSet \cup {"."}
    THEN Line(new_version_arg \o
              SubSeq(line.value, VersionRun(line.value, 2) + 1, Len(line.value)))
    ELSE line

\* re.sub of the image line: the whole tag is replaced when the line is there
ImageTagSub(line, new_image_tag) ==
    IF line.present /\ line.value # <<>> THEN Line(new_image_tag) ELSE line

\* lines 147-167: the text f.write writes back
update_docker_compose(content, new_image_tag, new_version_arg) ==
    [content EXCEPT !.image = ImageTagSub(content.image, new_image_tag),
                    !.arg   = VersionArgSub(content.arg, new_version_arg)]

\* open(file_path, 'w'): the file exists and is empty until something is written
TruncatedPackage == [exists |-> TRUE, content |-> "empty",
                     version |-> <<>>, upstream |-> <<>>]

TruncatedCompose == [exists |-> TRUE, content |-> "empty",
                     image |-> NoLine, arg |-> NoLine]

\* A plausible slip: every package gets the mainnet package's next version.
new_pkg_version_of_primary(pkg_data, primary_version) ==
    increment_patch_version(primary_version)

\* lines 235-236: the new version is computed from the file's own version
new_pkg_version_of(pkg_data, primary_version) ==
    increment_patch_version(pkg_data.version)

\* lines 230-238 with 122-131: read one package file, compute its new
\* version, open it for writing
main_package_open ==
    /\ pc = "pkg_loop"
    /\ idx <= Len(files)
    /\ UNCHANGED <<compose, github_output, output, latest_geth_version,
                   current_upstream, current_version, run0, tag_incs, runs, kills,
                   call>>
    /\ LET package_file == files[idx]
           pkg_data == pkg[package_file]
           new_pkg_version == new_pkg_version_of(pkg_data, current_version)
       IN  IF pkg_data.content # "json"
           THEN Exit(1, "JSONDecodeError") /\ UNCHANGED <<pkg, written>>
           ELSE IF ~new_pkg_version.ok
           THEN Exit(1, "ValueError") /\ UNCHANGED <<pkg, written>>
           ELSE /\ pending' = update_package_json(pkg_data, new_pkg_version.s,
                                                  latest_geth_version)
                /\ pkg' = [pkg EXCEPT ![package_file] = TruncatedPackage]
                /\ written' = written \cup {<<"package", package_file>>}
                /\ pc' = "pkg_write"
                /\ UNCHANGED <<exit_code, exit_reason, files, idx>>

\* lines 132-135: json.dump, the trailing newline, close
main_package_write ==
    /\ pc = "pkg_write"
    /\ pkg' = [pkg EXCEPT ![files[idx]] = pending]
    /\ tag_incs' = [tag_incs EXCEPT ![files[idx]] = @ + 1]
    /\ pending' = <<>>
    /\ idx' = idx + 1
    /\ pc' = "pkg_loop"
    /\ UNCHANGED <<compose, github_output, output, exit_code, exit_reason,
                   latest_geth_version, current_upstream, current_version, files,
                   run0, written, runs, kills, call>>

\* lines 240-247: after the package loop, list the docker-compose files
main_find_compose ==
    /\ pc = "pkg_loop"
    /\ idx > Len(files)
    /\ UNCHANGED <<disk, github_output, output, latest_geth_version,
                   current_upstream, current_version, history, call>>
    /\ IF Glob(compose) = <<>>
       THEN Exit(1, "no_compose")
       ELSE /\ pc' = "compose_loop"
            /\ files' = Glob(compose)
            /\ idx' = 1
            /\ UNCHANGED <<exit_code, exit_reason, pending>>

\* lines 250-259: a docker-compose file without a package file is skipped
main_compose_skip ==
    /\ pc = "compose_loop"
    /\ idx <= Len(files)
    /\ ~pkg[files[idx]].exists
    /\ idx' = idx + 1
    /\ UNCHANGED <<disk, github_output, output, pc, exit_code, exit_reason,
                   latest_geth_version, current_upstream, current_version, files,
                   pending, history, call>>

\* lines 250-267 with 147-166: read the package's (new) version, rewrite the
\* text in memory, open the docker-compose file for writing
main_compose_open ==
    /\ pc = "compose_loop"
    /\ idx <= Len(files)
    /\ pkg[files[idx]].exists
    /\ UNCHANGED <<pkg, github_output, output, latest_geth_version,
                   current_upstream, current_version, run0, tag_incs, runs, kills,
                   call>>
    /\ LET compose_file == files[idx]
           pkg_data == pkg[compose_file]
       IN  IF pkg_data.content # "json"
           THEN Exit(1, "JSONDecodeError") /\ UNCHANGED <<compose, written>>
           ELSE /\ pending' = update_docker_compose(compose[compose_file],
                                  pkg_data.version, latest_geth_version)
                /\ compose' = [compose EXCEPT ![compose_file] = TruncatedCompose]
                /\ written' = written \cup {<<"compose", compose_file>>}
                /\ pc' = "compose_write"
                /\ UNCHANGED <<exit_code, exit_reason, files, idx>>

\* lines 167-169: f.write(content), close
main_compose_write ==
    /\ pc = "compose_write"
    /\ compose' = [compose EXCEPT ![files[idx]] = pending]
    /\ pending' = <<>>
    /\ idx' = idx + 1
    /\ pc' = "compose_loop"
    /\ UNCHANGED <<pkg, github_output, output, exit_code, exit_reason,
                   latest_geth_version, current_upstream, current_version, files,
                   history, call>>

\* lines 269-291: report the result and return
main_finish ==
    /\ pc = "compose_loop"
    /\ idx > Len(files)
    /\ output' = IF github_output
                 THEN <<"update_available=true",
                        <<"old_version", current_upstream>>,
                        <<"new_version", latest_geth_version>>,
                        <<"old_package_version", current_version>>,
                        <<"new_package_version", pkg[Primary].version>> >>
                 ELSE <<>>
    /\ Exit(0, "updated")
    /\ UNCHANGED <<disk, github_output, latest_geth_version, current_upstream,
                   current_version, history, call>>

\* The process is killed inside update_package_json or update_docker_compose
\* while the file is open for writing. The file has been truncated; of the
\* new content nothing, or only a part, may have reached the disk.
Interrupt ==
    /\ pc \in {"pkg_write", "compose_write"}
    /\ Exit(137, "killed")
    /\ kills' = kills + 1
    /\ UNCHANGED <<github_output, output, latest_geth_version, current_upstream,
                   current_version, run0, written, tag_incs, runs, call>>
    /\ IF pc = "pkg_write"
       THEN /\ \E c \in {"empty", "truncated"} :
                 pkg' = [pkg EXCEPT ![files[idx]] = [TruncatedPackage EXCEPT !.content = c]]
            /\ UNCHANGED compose
       ELSE /\ \/ compose' = compose
               \/ \E i \in {NoLine, pending.image}, a \in {NoLine, pending.arg} :
                    compose' = [compose EXCEPT ![files[idx]] =
                                   [exists |-> TRUE, content |-> "truncated",
                                    image |-> i, arg |-> a]]
            /\ UNCHANGED pkg

Next ==
    \/ fetch_latest_geth_release
    \/ main_decide
    \/ main_package_open
    \/ main_package_write
    \/ main_find_compose
    \/ main_compose_skip
    \/ main_compose_open
    \/ main_compose_write
    \/ main_finish
    \/ Interrupt

Spec == Init /\ [][Next]_vars

(***************************************************************************)
(* The version helpers called on their own                                 *)
(***************************************************************************)
\* Largest number of dot-separated components of an input of parse_version
MaxParts == 4

\* Largest number of leading 'v' characters of an input of parse_version
MaxPrefix == 2

Components == { <<"1">>, <<"1", "0">>, <<"+", "1">>, <<"-", "1">>,
                <<" ", "1">>, <<>> }

RECURSIVE Join(_)
Join(parts) == IF Len(parts) = 1 THEN parts[1]
               ELSE parts[1] \o <<".">> \o Join(Tail(parts))

ParseInputs ==
    { [k \in 1..v |-> "v"] \o Join(parts) :
        v \in 0..MaxPrefix,
        parts \in UNION { [1..n -> Components] : n \in 1..MaxParts } }

S_1_9_0  == <<"1", ".", "9", ".", "0">>
S_1_10_0 == <<"1", ".", "1", "0", ".", "0">>
S_2_0_0  == <<"2", ".", "0", ".", "0">>
S_0_10_3 == <<"0", ".", "1", "0", ".", "3">>

CompareInputs == {S_1_9_0, S_1_10_0, S_v1_9_0, S_1_9_1, S_2_0_0, S_0_10_3}

\* The run variables of a state in which only the helpers are called
NoRun(p, c) ==
    /\ pkg = p
    /\ compose = c
    /\ github_output = TRUE
    /\ output = <<>>
    /\ pc = "idle"
    /\ exit_code = 0
    /\ exit_reason = "none"
    /\ latest_geth_version = <<>>
    /\ current_upstream = <<>>
    /\ current_version = <<>>
    /\ files = <<>>
    /\ idx = 0
    /\ pending = <<>>
    /\ run0 = [pkg |-> p, compose |-> c]
    /\ written = {}
    /\ tag_incs = [n \in Networks |-> 0]
    /\ runs = 0
    /\ kills = 0

run_vars == <<pkg, compose, github_output, output, pc, exit_code, exit_reason,
              latest_geth_version, current_upstream, current_version, files, idx,
              pending, run0, written, tag_incs, runs, kills>>

InitParse ==
    /\ NoRun([n \in Networks |-> NoPackage], [n \in Networks |-> NoCompose])
    /\ \E s \in ParseInputs : call = [fn |-> "none", args |-> <<s>>, result |-> <<>>]

\* one call parse_version(version_str)
call_parse_version ==
    /\ call.fn = "none"
    /\ Len(call.args) = 1
    /\ call' = [call EXCEPT !.fn = "parse_version",
                            !.result = parse_version(call.args[1])]
    /\ UNCHANGED run_vars

NextParse == call_parse_version

SpecParse == InitParse /\ [][NextParse]_vars

\* The stored upstream of the mainnet package is the first argument, so that
\* main() takes its decision on it.
InitCompare ==
    \E a \in CompareInputs, b \in CompareInputs, c \in CompareInputs :
        /\ NoRun([n \in Networks |-> IF n = Primary THEN PackageFile(S_1_0_9, a)
                                     ELSE NoPackage],
                 [n \in Networks |-> NoCompose])
        /\ call = [fn |-> "none", args |-> <<a, b, c>>, result |-> <<>>]

\* the calls compare_versions makes possible on three versions a, b, c
call_compare_versions ==
    /\ call.fn = "none"
    /\ Len(call.args) = 3
    /\ LET a == call.args[1]
           b == call.args[2]
           c == call.args[3]
       IN  call' = [call EXCEPT
                !.fn = "compare_versions",
                !.result = [ab |-> compare_versions(a, b),
                            ba |-> compare_versions(b, a),
                            bc |-> compare_versions(b, c),
                            ac |-> compare_versions(a, c),
                            update_ab  |-> needs_update(a, b),
                            update_aa  |-> needs_update(a, a),
                            update_inc |-> needs_update(a, increment_patch_version(a).s),
                            update_dec |-> needs_update(increment_patch_version(a).s, a)]]
    /\ UNCHANGED run_vars

NextCompare ==
    \/ call_compare_versions
    \/ fetch_latest_geth_release
    \/ main_decide

SpecCompare == InitCompare /\ [][NextCompare]_vars

(***************************************************************************)
(* Properties                                                              *)
(***************************************************************************)
IsInt(p) == p # <<>> /\ \A k \in 1..Len(p) : p[k] \in DigitSet

\* [v]INT.INT.INT
StrictForm(s) ==
    LET t == IF s # <<>> /\ Head(s) = "v" THEN Tail(s) ELSE s
        parts == split(t, ".")
    IN  Len(parts) = 3 /\ \A k \in 1..3 : IsInt(parts[k])

\* C7: parse_version accepts a string if and only if it has the form
\* [v]INT.INT.INT (one optional leading 'v', three unsigned digit strings);
\* every other shape raises.
C7_AcceptsExactlyStrictForm ==
    call.fn = "parse_version" =>
        (call.result.ok <=> StrictForm(call.args[1]))

\* Numeric value of a version tuple whose components are all below VersionBase
VersionBase == 1000

Weight(t) == (t[1] * VersionBase + t[2]) * VersionBase + t[3]

Sign(x) == IF x < 0 THEN 0 - 1 ELSE IF x = 0 THEN 0 ELSE 1

\* C8: compare_versions orders valid versions as the integer triples
\* (major, minor, patch) are ordered: it is antisymmetric and transitive, puts
\* 1.9.0 before 1.10.0, and the update decision of main() is taken exactly
\* when the stored upstream is strictly below the fetched tag; a version
\* never needs an update to itself or to a lower one, and always to its
\* patch increment.
C8_NumericOrderAndDecision ==
    /\ call.fn = "compare_versions" =>
          LET a == call.args[1]
              b == call.args[2]
              r == call.result
              wa == Weight(parse_version(a).v)
              wb == Weight(parse_version(b).v)
          IN  /\ r.ab.ok
              /\ r.ab.val = Sign(wa - wb)
              /\ r.ba.val = 0 - r.ab.val
              /\ (r.ab.val <= 0 /\ r.bc.val <= 0) => r.ac.val <= 0
              /\ (a = S_1_9_0 /\ b = S_1_10_0) => r.ab.val < 0
              /\ r.update_ab <=> wa < wb
              /\ ~r.update_aa
              /\ r.update_inc
              /\ ~r.update_dec
    /\ (pc = "pkg_loop" \/ (pc = "exit" /\ exit_reason = "noop")) =>
          LET wc == Weight(parse_version(current_upstream).v)
              wl == Weight(parse_version(latest_geth_version).v)
          IN  (pc = "pkg_loop") <=> (wc < wl)

\* 1.9.0 and 1.10.0 have been compared, and a run has decided to update from
\* a stored 1.9.0 to a fetched v1.10.0
C8_Witness ==
    /\ call.fn = "compare_versions"
    /\ call.args[1] = S_1_9_0
    /\ call.args[2] = S_1_10_0
    /\ pc = "pkg_loop"
    /\ current_upstream = S_1_9_0
    /\ latest_geth_version = S_v1_10_0

\* No descriptor file differs from what it was when the current run started
FilesUntouched == pkg = run0.pkg /\ compose = run0.compose

Parses(v) == parse_version(v).ok

Value(v) == Weight(parse_version(v).v)

\* The current run has fetched a tag and the mainnet package it started from
\* stores an upstream that is equal to or ahead of that tag
StoredNotBehind ==
    /\ pc # "idle"
    /\ exit_reason # "fetch"
    /\ run0.pkg[Primary].exists
    /\ run0.pkg[Primary].content = "json"
    /\ Parses(run0.pkg[Primary].upstream)
    /\ Parses(latest_geth_version)
    /\ Value(run0.pkg[Primary].upstream) >= Value(latest_geth_version)

\* C1: when the upstream stored in the mainnet package is equal to or ahead
\* of the fetched tag, the run changes no descriptor file at any point, and
\* when main() exits it exits with status 0 through the no-update branch,
\* having appended update_available=false (and nothing else) to the output
\* file if one is configured.
C1_NoOpRunWritesNothing ==
    StoredNotBehind =>
        /\ FilesUntouched
        /\ written = {}
        /\ (pc = "exit" /\ exit_reason # "killed") =>
              /\ exit_code = 0
              /\ exit_reason = "noop"
              /\ output = IF github_output THEN <<"update_available=false">>
                          ELSE <<>>

\* a run whose stored upstream is strictly ahead of the fetched tag has
\* exited through the no-update branch and reported it
C1_Witness ==
    /\ StoredNotBehind
    /\ pc = "exit"
    /\ exit_reason = "noop"
    /\ github_output
    /\ output = <<"update_available=false">>
    /\ Value(run0.pkg[Primary].upstream) > Value(latest_geth_version)
    /\ run0.pkg["holesky"].exists
    /\ run0.compose[Primary].exists

\* C2: when a run that decided to update exits successfully, each network's
\* package descriptor has been rewritten if and only if its deployment
\* descriptor has been rewritten.
C2_PairsRewrittenTogether ==
    (pc = "exit" /\ exit_reason = "updated") =>
        \A n \in Networks :
            (<<"package", n>> \in written) <=> (<<"compose", n>> \in written)

\* C3: a run that ends on a malformed version string ends with a non-zero
\* status and has modified no descriptor file.
C3_MalformedVersionTouchesNothing ==
    (pc = "exit" /\ exit_reason = "ValueError") =>
        exit_code # 0 /\ FilesUntouched

\* C4: when an updating run has completed, every network whose two files
\* both existed has a package version equal to its own previous version with
\* the patch raised by one, the fetched tag as its upstream, and (where the
\* deployment descriptor has an image line) exactly that new package version
\* as the image tag.
C4_PerPairUpdateResult ==
    (pc = "exit" /\ exit_reason = "updated") =>
        \A n \in Networks :
            (run0.pkg[n].exists /\ run0.compose[n].exists) =>
                LET old == parse_version(run0.pkg[n].version)
                    new == parse_version(pkg[n].version)
                IN  /\ old.ok /\ new.ok
                    /\ new.v = <<old.v[1], old.v[2], old.v[3] + 1>>
                    /\ StrictForm(pkg[n].version)
                    /\ pkg[n].upstream = latest_geth_version
                    /\ compose[n].image =
                          IF run0.compose[n].image.present
                          THEN Line(pkg[n].version)
                          ELSE run0.compose[n].image

\* two complete pairs that started at different package versions have both
\* been updated, each from its own version
C4_Witness ==
    /\ pc = "exit"
    /\ exit_reason = "updated"
    /\ run0.pkg["holesky"].version = S_3_1_4
    /\ run0.pkg[Primary].version = S_1_0_9
    /\ run0.compose["holesky"].image.present
    /\ run0.compose[Primary].image.present
    /\ pkg["holesky"].version = <<"3", ".", "1", ".", "5">>
    /\ pkg[Primary].version = <<"1", ".", "0", ".", "1", "0">>
    /\ compose["holesky"].image.value = <<"3", ".", "1", ".", "5">>

\* C5: a deployment descriptor whose VERSION value had a leading 'v' and that
\* the run has rewritten in full still has a VERSION value with a leading 'v'.
C5_VersionArgKeepsV ==
    \A n \in Networks :
        ( /\ <<"compose", n>> \in written
          /\ compose[n].content = "text"
          /\ run0.compose[n].arg.present
          /\ Head(run0.compose[n].arg.value) = "v"
          /\ compose[n].arg.present )
        => Head(compose[n].arg.value) = "v"

\* C6: after a run has been killed, every descriptor file holds either the
\* content it had when the run started or a complete new content.
C6_WritesAreAtomic ==
    (pc = "exit" /\ exit_reason = "killed") =>
        \A n \in Networks :
            /\ pkg[n] = run0.pkg[n] \/ pkg[n].content = "json"
            /\ compose[n] = run0.compose[n] \/ compose[n].content = "text"

\* The upstream stored in package n is not below the one the run started with
UpstreamNotLowered(n) ==
    ( /\ run0.pkg[n].exists /\ run0.pkg[n].content = "json"
      /\ pkg[n].exists /\ pkg[n].content = "json"
      /\ Parses(run0.pkg[n].upstream) /\ Parses(pkg[n].upstream) )
    => Value(pkg[n].upstream) >= Value(run0.pkg[n].upstream)

C10_OneIncrementPerRelease ==
    kills = 0 => \A n \in Networks : tag_incs[n] <= 1

====
